---- MODULE Spec2Model ----
(***************************************************************************)
(* A model of the two OAuth2 token generator scripts                       *)
(*   scripts/get-gmail-oauth2-token.py    (script = "gmail")               *)
(*   scripts/get-outlook-oauth2-token.py  (script = "outlook")             *)
(* One behaviour is one run of one script: the module-level import, the    *)
(* prompts, the SDK calls, the report, and the top-level handlers.         *)
(*                                                                         *)
(* Text is a sequence of pieces.  A piece is either one character of data  *)
(* (operator input, token material) or a literal of the source kept whole  *)
(* ("Access Token: ", "POP3_PROVIDER", "=", ...).  stdout is a sequence of *)
(* lines, each line a text.                                                *)
(***************************************************************************)
EXTENDS Integers, Sequences, FiniteSets, TLC

VARIABLES
    script,         \* which of the two scripts is run
    pc,             \* position of the run in the script
    stdin,          \* the raw lines input() has returned so far
    client_id,      \* local variable of main()
    client_secret,  \* local variable of main()
    tenant_id,      \* local variable of main() (outlook only)
    sdk,            \* the calls made into the vendor SDK, in order
    result,         \* creds (gmail) or result (outlook), as returned by the SDK
    exc,            \* the exception the run has raised, if any
    out,            \* the lines printed on standard output
    stderr,         \* the lines the interpreter wrote on standard error
    exit_code       \* <<>> while the process runs, <<n>> once it has exited

vars == <<script, pc, stdin, client_id, client_secret, tenant_id, sdk, result,
          exc, out, stderr, exit_code>>

----------------------------------------------------------------------------
(* Bounds of the model *)

\* longest line the operator types at a prompt
MaxInLen == 2

\* longest access token the SDK returns
MaxTokLen == 51

----------------------------------------------------------------------------
(* Program constants *)

\* the slice bound of the access-token preview, token[:50]
PreviewLen == 50

\* the width of the rule lines, "="*60
RuleLen == 60

----------------------------------------------------------------------------
(* Python values *)

Min(a, b) == IF a < b THEN a ELSE b

PyNone == [t |-> "none", v |-> <<>>]
PyStr(s) == [t |-> "str", v |-> s]
PyInt(n) == [t |-> "int", v |-> <<n>>]
PyDatetime(s) == [t |-> "datetime", v |-> s]

\* a local variable that has not been assigned yet
Unbound == [t |-> "unbound", v |-> <<>>]

DigitChars == <<"0", "1", "2", "3", "4", "5", "6", "7", "8", "9">>

\* str(n) of a non-negative int
RECURSIVE Dec(_)
Dec(n) ==
    IF n < 10 THEN <<DigitChars[n + 1]>>
    ELSE Dec(n \div 10) \o <<DigitChars[(n % 10) + 1]>>

\* what an f-string placeholder {x} renders
Format(x) ==
    CASE x.t = "none" -> <<"None">>
      [] x.t = "int" -> Dec(x.v[1])
      [] OTHER -> x.v

\* a variant without the slice: the whole string
Take_Whole(s, n) == s

\* s[:n]
Take(s, n) == SubSeq(s, 1, Min(n, Len(s)))

Whitespace == {" "}

\* str.lstrip(), str.rstrip(), str.strip()
RECURSIVE LStrip(_)
LStrip(s) ==
    IF s # <<>> /\ Head(s) \in Whitespace THEN LStrip(Tail(s)) ELSE s

RECURSIVE RStrip(_)
RStrip(s) ==
    IF s # <<>> /\ s[Len(s)] \in Whitespace
    THEN RStrip(SubSeq(s, 1, Len(s) - 1))
    ELSE s

Strip(s) == RStrip(LStrip(s))

\* "k" in d  and  d.get(k)
HasKey(d, k) == k \in DOMAIN d
Get(d, k) == IF k \in DOMAIN d THEN d[k] ELSE PyNone

\* "="*60
Rule == [i \in 1..RuleLen |-> "="]

\* a KEY=VALUE line of the .env block
KV(k, v) == <<k, "=">> \o v

----------------------------------------------------------------------------
(* The environment: what the operator types and what the SDK returns *)

InputChars == {" ", "x"}

RECURSIVE SeqsUpTo(_, _)
SeqsUpTo(S, n) ==
    IF n = 0 THEN {<<>>}
    ELSE LET shorter == SeqsUpTo(S, n - 1)
         IN  shorter \cup {Append(s, c) : s \in {t \in shorter : Len(t) = n - 1}, c \in S}

\* the lines input() can return
InputLines == SeqsUpTo(InputChars, MaxInLen)

\* token material: a token is told apart by its first character and length
Tok(c, n) == [i \in 1..n |-> IF i = 1 THEN c ELSE DigitChars[(i % 10) + 1]]

TokLens == {1, PreviewLen - 1, PreviewLen} \cup (PreviewLen + 1 .. MaxTokLen)

AccessTokens == {Tok("a", n) : n \in TokLens}
RefreshTokens == {Tok("r", 3), Tok("r", PreviewLen + 1)}

ExpirySeconds == {3599}
ExpiryTimes == {<<"2026-01-01 00:59:59">>}

\* the texts str(e) of the exceptions the SDK raises
SdkErrors == {<<"access_denied">>}

----------------------------------------------------------------------------
(* Standard output *)

\* sys.stdout.write of a text given as its fragments between line breaks:
\* the first fragment continues the open last line, the others open new lines
Write(o, frags) ==
    SubSeq(o, 1, Len(o) - 1) \o <<o[Len(o)] \o Head(frags)>> \o Tail(frags)

\* print(s): s followed by a line break
print(o, frags) == Write(o, frags \o << <<>> >>)

NoException == [kind |-> "none", text |-> <<>>]
KeyboardInterrupt == [kind |-> "KeyboardInterrupt", text |-> <<>>]
Exception(text) == [kind |-> "Exception", text |-> text]

\* EOFError, raised by input() at the end of standard input
EOFError == Exception(<<"EOF when reading a line">>)

\* input(prompt) writes the prompt, then blocks for a line
Prompted(prompt) == out' = Write(out, << <<prompt>> >>)

\* a statement of main() raises e: control passes to the except clauses
Raise(e) == /\ exc' = e
            /\ pc' = "except"

\* the interpreter ends the process after the last statement of the script
Exit == /\ pc' = "exited"
        /\ exit_code' = <<0>>

\* ModuleNotFoundError, raised by an import statement
ModuleNotFoundError(module) == Exception(<<"No module named '", module, "'">>)

\* an exception outside any try block: traceback on stderr, exit status 1
Uncaught(e) ==
    /\ exc' = e
    /\ pc' = "exited"
    /\ stderr' = stderr \o << <<"Traceback (most recent call last):">>,
                               <<"ModuleNotFoundError: ">> \o e.text >>
    /\ exit_code' = <<1>>

Init ==
    /\ script \in {"gmail", "outlook"}
    /\ pc = "import"
    /\ stdin = <<>>
    /\ client_id = Unbound
    /\ client_secret = Unbound
    /\ tenant_id = Unbound
    /\ sdk = <<>>
    /\ result = Unbound
    /\ exc = NoException
    /\ out = << <<>> >>
    /\ stderr = <<>>
    /\ exit_code = <<>>

----------------------------------------------------------------------------
(* get-gmail-oauth2-token.py *)

GmailRunning(at) == script = "gmail" /\ pc = at

\* import json; from google_auth_oauthlib.flow import InstalledAppFlow
Gmail_Import ==
    /\ GmailRunning("import")
    /\ pc' = "banner"
    /\ UNCHANGED <<script, stdin, client_id, client_secret, tenant_id, sdk,
                   result, exc, out, stderr, exit_code>>

\* the package is not installed: the import statement raises at module level
Gmail_ImportFails ==
    /\ GmailRunning("import")
    /\ Uncaught(ModuleNotFoundError("google_auth_oauthlib"))
    /\ UNCHANGED <<script, stdin, client_id, client_secret, tenant_id, sdk,
                   result, out>>

Gmail_Banner ==
    /\ GmailRunning("banner")
    /\ out' = print(out, << <<"=== Gmail OAuth2 Token Generator ===">>, <<>> >>)
    /\ pc' = "client_id"
    /\ UNCHANGED <<script, stdin, client_id, client_secret, tenant_id, sdk,
                   result, exc, stderr, exit_code>>

Gmail_PromptClientId ==
    /\ GmailRunning("client_id")
    /\ Prompted("Enter your Client ID: ")
    /\ \E line \in InputLines :
        /\ stdin' = Append(stdin, line)
        /\ client_id' = PyStr(Strip(line))
    /\ pc' = "client_secret"
    /\ UNCHANGED <<script, client_secret, tenant_id, sdk, result, exc, stderr,
                   exit_code>>

Gmail_PromptClientSecret ==
    /\ GmailRunning("client_secret")
    /\ Prompted("Enter your Client Secret: ")
    /\ \E line \in InputLines :
        /\ stdin' = Append(stdin, line)
        /\ client_secret' = PyStr(Strip(line))
    /\ pc' = "create"
    /\ UNCHANGED <<script, client_id, tenant_id, sdk, result, exc, stderr,
                   exit_code>>

\* Ctrl-C, or the end of standard input, while input() blocks
Gmail_PromptInterrupted ==
    /\ script = "gmail"
    /\ \/ pc = "client_id" /\ Prompted("Enter your Client ID: ")
       \/ pc = "client_secret" /\ Prompted("Enter your Client Secret: ")
    /\ \E e \in {KeyboardInterrupt, EOFError} : Raise(e)
    /\ UNCHANGED <<script, stdin, client_id, client_secret, tenant_id, sdk,
                   result, stderr, exit_code>>

GmailScopes == <<"https://mail.google.com/">>

GmailClientConfig ==
    [client_id |-> client_id,
     client_secret |-> client_secret,
     auth_uri |-> "https://accounts.google.com/o/oauth2/auth",
     token_uri |-> "https://oauth2.googleapis.com/token",
     redirect_uris |-> <<"http://localhost">>]

\* flow = InstalledAppFlow.from_client_config({...}, SCOPES)
Gmail_FromClientConfig ==
    /\ GmailRunning("create")
    /\ sdk' = Append(sdk, [fn |-> "from_client_config",
                           config |-> GmailClientConfig,
                           scopes |-> GmailScopes])
    /\ \/ pc' = "acquire" /\ exc' = exc
       \/ \E text \in SdkErrors : Raise(Exception(text))
    /\ UNCHANGED <<script, stdin, client_id, client_secret, tenant_id, result,
                   out, stderr, exit_code>>

\* the credentials objects run_local_server can return
GmailCredentials ==
    [token : {PyStr(t) : t \in AccessTokens},
     refresh_token : {PyNone} \cup {PyStr(t) : t \in RefreshTokens},
     expiry : {PyNone} \cup {PyDatetime(t) : t \in ExpiryTimes}]

\* the two announcements before the SDK call (the same in both scripts)
Starting ==
    << <<>>, <<"Starting OAuth2 flow...">>,
       <<"A browser window will open. Please authorize the application.">>, <<>> >>

\* the two announcements, then creds = flow.run_local_server(port=0)
Gmail_RunLocalServer ==
    /\ GmailRunning("acquire")
    /\ out' = print(out, Starting)
    /\ sdk' = Append(sdk, [fn |-> "run_local_server"])
    /\ \/ \E creds \in GmailCredentials :
            /\ result' = creds
            /\ pc' = "report"
            /\ exc' = exc
       \/ /\ \E e \in {KeyboardInterrupt} \cup {Exception(t) : t \in SdkErrors} : Raise(e)
          /\ result' = result
    /\ UNCHANGED <<script, stdin, client_id, client_secret, tenant_id, stderr,
                   exit_code>>

\* lines 40-45: the success banner, the preview, the refresh token, the expiry
GmailSummary(creds) ==
    << <<>>, Rule, <<"SUCCESS! OAuth2 credentials obtained">>, Rule,
       <<>>, <<"Access Token: ">> \o Take(creds.token.v, PreviewLen) \o <<"...">>,
       <<"Refresh Token: ">> \o Format(creds.refresh_token),
       <<"Token Expiry: ">> \o Format(creds.expiry) >>

\* a variant that puts creds.token on the refresh token line
GmailEnvBlock_AccessToken(id, secret, creds) ==
    << <<>>, Rule, <<"Add these lines to your .env file:">>, Rule,
       KV("POP3_PROVIDER", <<"gmail">>),
       KV("POP3_EMAIL", <<"your.email@gmail.com">>),
       KV("POP3_OAUTH2_CLIENT_ID", Format(id)),
       KV("POP3_OAUTH2_CLIENT_SECRET", Format(secret)),
       KV("POP3_OAUTH2_REFRESH_TOKEN", Format(creds.token)),
       Rule >>

\* lines 47-55: the .env block
GmailEnvBlock(id, secret, creds) ==
    << <<>>, Rule, <<"Add these lines to your .env file:">>, Rule,
       KV("POP3_PROVIDER", <<"gmail">>),
       KV("POP3_EMAIL", <<"your.email@gmail.com">>),
       KV("POP3_OAUTH2_CLIENT_ID", Format(id)),
       KV("POP3_OAUTH2_CLIENT_SECRET", Format(secret)),
       KV("POP3_OAUTH2_REFRESH_TOKEN", Format(creds.refresh_token)),
       Rule >>

\* every print of lines 40-55 ends its text with a line break
Gmail_Report ==
    /\ GmailRunning("report")
    /\ out' = print(out, GmailSummary(result)
                            \o GmailEnvBlock(client_id, client_secret, result))
    /\ Exit
    /\ UNCHANGED <<script, stdin, client_id, client_secret, tenant_id, sdk,
                   result, exc, stderr>>

\* except KeyboardInterrupt:
Gmail_ExceptKeyboardInterrupt ==
    /\ GmailRunning("except")
    /\ exc.kind = "KeyboardInterrupt"
    /\ out' = print(out, << <<>>, <<>>, <<"Cancelled by user">> >>)
    /\ Exit
    /\ UNCHANGED <<script, stdin, client_id, client_secret, tenant_id, sdk,
                   result, exc, stderr>>

\* except Exception as e:
Gmail_ExceptException ==
    /\ GmailRunning("except")
    /\ exc.kind = "Exception"
    /\ out' = print(print(print(out,
                << <<>>, <<"Error: ">> \o exc.text >>),
                << <<>>, <<"Make sure you have installed the required packages:">> >>),
                << <<"  pip install google-auth-oauthlib google-auth">> >>)
    /\ Exit
    /\ UNCHANGED <<script, stdin, client_id, client_secret, tenant_id, sdk,
                   result, exc, stderr>>

Gmail ==
    \/ Gmail_Import
    \/ Gmail_ImportFails
    \/ Gmail_Banner
    \/ Gmail_PromptClientId
    \/ Gmail_PromptClientSecret
    \/ Gmail_PromptInterrupted
    \/ Gmail_FromClientConfig
    \/ Gmail_RunLocalServer
    \/ Gmail_Report
    \/ Gmail_ExceptKeyboardInterrupt
    \/ Gmail_ExceptException

----------------------------------------------------------------------------
(* get-outlook-oauth2-token.py *)

OutlookRunning(at) == script = "outlook" /\ pc = at

\* import msal
Outlook_Import ==
    /\ OutlookRunning("import")
    /\ pc' = "banner"
    /\ UNCHANGED <<script, stdin, client_id, client_secret, tenant_id, sdk,
                   result, exc, out, stderr, exit_code>>

\* the package is not installed: the import statement raises at module level
Outlook_ImportFails ==
    /\ OutlookRunning("import")
    /\ Uncaught(ModuleNotFoundError("msal"))
    /\ UNCHANGED <<script, stdin, client_id, client_secret, tenant_id, sdk,
                   result, out>>

Outlook_Banner ==
    /\ OutlookRunning("banner")
    /\ out' = print(out, << <<"=== Outlook/Office365 OAuth2 Token Generator ===">>, <<>> >>)
    /\ pc' = "client_id"
    /\ UNCHANGED <<script, stdin, client_id, client_secret, tenant_id, sdk,
                   result, exc, stderr, exit_code>>

Outlook_PromptClientId ==
    /\ OutlookRunning("client_id")
    /\ Prompted("Enter your Client ID (Application ID): ")
    /\ \E line \in InputLines :
        /\ stdin' = Append(stdin, line)
        /\ client_id' = PyStr(Strip(line))
    /\ pc' = "client_secret"
    /\ UNCHANGED <<script, client_secret, tenant_id, sdk, result, exc, stderr,
                   exit_code>>

Outlook_PromptClientSecret ==
    /\ OutlookRunning("client_secret")
    /\ Prompted("Enter your Client Secret: ")
    /\ \E line \in InputLines :
        /\ stdin' = Append(stdin, line)
        /\ client_secret' = PyStr(Strip(line))
    /\ pc' = "tenant_id"
    /\ UNCHANGED <<script, client_id, tenant_id, sdk, result, exc, stderr,
                   exit_code>>

\* a variant without the default: input(...).strip()
TenantOf_NoDefault(line) == Strip(line)

\* input(...).strip() or "common"
TenantOf(line) == IF Strip(line) # <<>> THEN Strip(line) ELSE <<"common">>

Outlook_PromptTenantId ==
    /\ OutlookRunning("tenant_id")
    /\ Prompted("Enter your Tenant ID (or 'common' for personal accounts) [common]: ")
    /\ \E line \in InputLines :
        /\ stdin' = Append(stdin, line)
        /\ tenant_id' = PyStr(TenantOf(line))
    /\ pc' = "create"
    /\ UNCHANGED <<script, client_id, client_secret, sdk, result, exc, stderr,
                   exit_code>>

\* Ctrl-C, or the end of standard input, while input() blocks
Outlook_PromptInterrupted ==
    /\ script = "outlook"
    /\ \/ pc = "client_id" /\ Prompted("Enter your Client ID (Application ID): ")
       \/ pc = "client_secret" /\ Prompted("Enter your Client Secret: ")
       \/ pc = "tenant_id"
            /\ Prompted("Enter your Tenant ID (or 'common' for personal accounts) [common]: ")
    /\ \E e \in {KeyboardInterrupt, EOFError} : Raise(e)
    /\ UNCHANGED <<script, stdin, client_id, client_secret, tenant_id, sdk,
                   result, stderr, exit_code>>

OutlookScopes == <<"https://outlook.office365.com/POP.AccessAsUser.All", "offline_access">>

\* f"https://login.microsoftonline.com/{tenant_id}"
Authority(tenant) == <<"https://login.microsoftonline.com/">> \o Format(tenant)

\* app = msal.PublicClientApplication(client_id, authority=...)
Outlook_PublicClientApplication ==
    /\ OutlookRunning("create")
    /\ sdk' = Append(sdk, [fn |-> "PublicClientApplication",
                           client_id |-> client_id,
                           authority |-> Authority(tenant_id)])
    /\ \/ pc' = "acquire" /\ exc' = exc
       \/ \E text \in SdkErrors : Raise(Exception(text))
    /\ UNCHANGED <<script, stdin, client_id, client_secret, tenant_id, result,
                   out, stderr, exit_code>>

\* d restricted to the keys it really has: a field drawn as <<>> is an absent key
Dict(fields) == [k \in {f \in DOMAIN fields : fields[f] # <<>>} |-> fields[k][1]]

Optional(S) == {<<>>} \cup {<<x>> : x \in S}

\* the dicts acquire_token_interactive can return: a token response, or an
\* error response (which, as any dict, may carry further keys)
OutlookTokenResponses ==
    {Dict(f) : f \in [access_token : {<<PyStr(t)>> : t \in AccessTokens},
                      refresh_token : Optional({PyStr(t) : t \in RefreshTokens}),
                      expires_in : Optional({PyInt(n) : n \in ExpirySeconds})]}

OutlookErrorResponses ==
    {Dict(f) : f \in [error : Optional({PyStr(<<"invalid_client">>)}),
                      error_description : Optional({PyStr(<<"bad id">>)}),
                      refresh_token : Optional({PyStr(Tok("r", 3))})]}

OutlookResults == OutlookTokenResponses \cup OutlookErrorResponses

\* the two announcements, then result = app.acquire_token_interactive(scopes=SCOPES)
Outlook_AcquireTokenInteractive ==
    /\ OutlookRunning("acquire")
    /\ out' = print(out, Starting)
    /\ sdk' = Append(sdk, [fn |-> "acquire_token_interactive", scopes |-> OutlookScopes])
    /\ \/ \E r \in OutlookResults :
            /\ result' = r
            /\ pc' = "report"
            /\ exc' = exc
       \/ /\ \E e \in {KeyboardInterrupt} \cup {Exception(t) : t \in SdkErrors} : Raise(e)
          /\ result' = result
    /\ UNCHANGED <<script, stdin, client_id, client_secret, tenant_id, stderr,
                   exit_code>>

\* lines 33-44: the success banner, the preview, the refresh token, the expiry
OutlookSummary(r) ==
    << <<>>, Rule, <<"SUCCESS! OAuth2 credentials obtained">>, Rule,
       <<>>, <<"Access Token: ">> \o Take(r["access_token"].v, PreviewLen) \o <<"...">> >>
    \o (IF HasKey(r, "refresh_token")
        THEN << <<"Refresh Token: ">> \o Format(r["refresh_token"]) >>
        ELSE << <<"Refresh Token: NOT RECEIVED">>,
                <<"WARNING: Make sure 'offline_access' scope is included!">> >>)
    \o << <<"Token Expiry: ">> \o Format(Get(r, "expires_in")) \o <<" seconds">> >>

\* a variant without the key test: result.get('refresh_token')
OutlookRefreshTokenLine_Get(r) ==
    KV("POP3_OAUTH2_REFRESH_TOKEN", Format(Get(r, "refresh_token")))

\* lines 54-57: the refresh token line of the .env block
OutlookRefreshTokenLine(r) ==
    IF HasKey(r, "refresh_token")
    THEN KV("POP3_OAUTH2_REFRESH_TOKEN", Format(r["refresh_token"]))
    ELSE KV("POP3_OAUTH2_REFRESH_TOKEN", <<"<NOT_RECEIVED>">>)

\* a variant with the client id and client secret lines exchanged
OutlookEnvBlock_Swapped(id, secret, tenant, r) ==
    << <<>>, Rule, <<"Add these lines to your .env file:">>, Rule,
       KV("POP3_PROVIDER", <<"outlook">>),
       KV("POP3_EMAIL", <<"your.email@outlook.com">>),
       KV("POP3_OAUTH2_CLIENT_SECRET", Format(secret)),
       KV("POP3_OAUTH2_CLIENT_ID", Format(id)),
       OutlookRefreshTokenLine(r),
       KV("POP3_OAUTH2_TENANT_ID", Format(tenant)),
       Rule >>

\* lines 46-60: the .env block
OutlookEnvBlock(id, secret, tenant, r) ==
    << <<>>, Rule, <<"Add these lines to your .env file:">>, Rule,
       KV("POP3_PROVIDER", <<"outlook">>),
       KV("POP3_EMAIL", <<"your.email@outlook.com">>),
       KV("POP3_OAUTH2_CLIENT_ID", Format(id)),
       KV("POP3_OAUTH2_CLIENT_SECRET", Format(secret)),
       OutlookRefreshTokenLine(r),
       KV("POP3_OAUTH2_TENANT_ID", Format(tenant)),
       Rule >>

\* a variant that reads the key 'error' for both lines
OutlookFailure_SameKey(r) ==
    << <<>>, Rule, <<"ERROR: Failed to obtain OAuth2 credentials">>, Rule,
       <<"Error: ">> \o Format(Get(r, "error")),
       <<"Description: ">> \o Format(Get(r, "error")),
       <<>>, <<"Please check:">>,
       <<"1. Client ID and Client Secret are correct">>,
       <<"2. API permissions are granted in Azure Portal">>,
       <<"3. 'offline_access' scope is included">> >>

\* lines 62-70: the error report
OutlookFailure(r) ==
    << <<>>, Rule, <<"ERROR: Failed to obtain OAuth2 credentials">>, Rule,
       <<"Error: ">> \o Format(Get(r, "error")),
       <<"Description: ">> \o Format(Get(r, "error_description")),
       <<>>, <<"Please check:">>,
       <<"1. Client ID and Client Secret are correct">>,
       <<"2. API permissions are granted in Azure Portal">>,
       <<"3. 'offline_access' scope is included">> >>

\* if "access_token" in result: ... else: ...
OutlookReport(id, secret, tenant, r) ==
    IF HasKey(r, "access_token")
    THEN OutlookSummary(r) \o OutlookEnvBlock(id, secret, tenant, r)
    ELSE OutlookFailure(r)

Outlook_Report ==
    /\ OutlookRunning("report")
    /\ out' = print(out, OutlookReport(client_id, client_secret, tenant_id, result))
    /\ Exit
    /\ UNCHANGED <<script, stdin, client_id, client_secret, tenant_id, sdk,
                   result, exc, stderr>>

\* a variant without the except KeyboardInterrupt clause: the interrupt
\* leaves the script as a traceback
Outlook_ExceptKeyboardInterrupt_Missing ==
    /\ OutlookRunning("except")
    /\ exc.kind = "KeyboardInterrupt"
    /\ pc' = "exited"
    /\ stderr' = stderr \o << <<"Traceback (most recent call last):">>,
                               <<"KeyboardInterrupt">> >>
    /\ exit_code' = <<1>>
    /\ UNCHANGED <<script, stdin, client_id, client_secret, tenant_id, sdk,
                   result, exc, out>>

\* except KeyboardInterrupt:
Outlook_ExceptKeyboardInterrupt ==
    /\ OutlookRunning("except")
    /\ exc.kind = "KeyboardInterrupt"
    /\ out' = print(out, << <<>>, <<>>, <<"Cancelled by user">> >>)
    /\ Exit
    /\ UNCHANGED <<script, stdin, client_id, client_secret, tenant_id, sdk,
                   result, exc, stderr>>

\* a variant that asks again after an error instead of ending the run
Outlook_ExceptException_Retry ==
    /\ OutlookRunning("except")
    /\ exc.kind = "Exception"
    /\ out' = print(out, << <<>>, <<"Error: ">> \o exc.text >>)
    /\ pc' = "client_id"
    /\ UNCHANGED <<script, stdin, client_id, client_secret, tenant_id, sdk,
                   result, exc, stderr, exit_code>>

\* except Exception as e:
Outlook_ExceptException ==
    /\ OutlookRunning("except")
    /\ exc.kind = "Exception"
    /\ out' = print(out, << <<>>, <<"Error: ">> \o exc.text,
                            <<>>, <<"Make sure you have installed the required package:">>,
                            <<"  pip install msal">> >>)
    /\ Exit
    /\ UNCHANGED <<script, stdin, client_id, client_secret, tenant_id, sdk,
                   result, exc, stderr>>

Outlook ==
    \/ Outlook_Import
    \/ Outlook_ImportFails
    \/ Outlook_Banner
    \/ Outlook_PromptClientId
    \/ Outlook_PromptClientSecret
    \/ Outlook_PromptTenantId
    \/ Outlook_PromptInterrupted
    \/ Outlook_PublicClientApplication
    \/ Outlook_AcquireTokenInteractive
    \/ Outlook_Report
    \/ Outlook_ExceptKeyboardInterrupt
    \/ Outlook_ExceptException

Next == Gmail \/ Outlook

Spec == Init /\ [][Next]_vars

----------------------------------------------------------------------------
(* Vocabulary of the properties *)

ConfigKeys ==
    {"POP3_PROVIDER", "POP3_EMAIL", "POP3_OAUTH2_CLIENT_ID",
     "POP3_OAUTH2_CLIENT_SECRET", "POP3_OAUTH2_REFRESH_TOKEN",
     "POP3_OAUTH2_TENANT_ID"}

\* a POP3_* KEY=VALUE line
IsConfigLine(l) == Len(l) >= 2 /\ l[1] \in ConfigKeys /\ l[2] = "="

ConfigLines(o) == SelectSeq(o, IsConfigLine)

NoConfigLine(o) == \A i \in 1..Len(o) : ~IsConfigLine(o[i])

Has(o, line) == \E i \in 1..Len(o) : o[i] = line

\* the lines of o that open with the literal label
Labelled(o, label) == {i \in 1..Len(o) : o[i] # <<>> /\ o[i][1] = label}

\* the value of the single KEY=VALUE line of o with this key
ValuesOf(o, key) ==
    {SubSeq(o[i], 3, Len(o[i])) : i \in {j \in 1..Len(o) : IsConfigLine(o[j]) /\ o[j][1] = key}}

\* tok occurs in line as a contiguous run of characters
Contains(line, tok) ==
    \E i \in 1..(Len(line) - Len(tok) + 1) : SubSeq(line, i, i + Len(tok) - 1) = tok

\* the first min(n, len(s)) characters of s
Prefix(s, n) == [i \in 1..(IF Len(s) < n THEN Len(s) ELSE n) |-> s[i]]

\* t is raw without its leading and trailing whitespace
IsTrimOf(t, raw) ==
    \E i \in 1..(Len(raw) + 1), j \in 0..Len(raw) :
        /\ i <= j + 1
        /\ t = SubSeq(raw, i, j)
        /\ \A k \in 1..(i - 1) : raw[k] = " "
        /\ \A k \in (j + 1)..Len(raw) : raw[k] = " "
        /\ t # <<>> => t[1] # " " /\ t[Len(t)] # " "

\* the SDK acquisition call has returned a value to main()
HasResult == DOMAIN result # DOMAIN Unbound

Exited == pc = "exited"

\* the run came to its end through the report of a token result
Succeeded ==
    /\ Exited
    /\ HasResult
    /\ exc.kind = "none"
    /\ script = "outlook" => HasKey(result, "access_token")

\* the run came to its end through the error report of the outlook script
SoftFailed ==
    /\ Exited
    /\ script = "outlook"
    /\ HasResult
    /\ exc.kind = "none"
    /\ ~HasKey(result, "access_token")

\* the access token and the refresh token (or <<>>) of the SDK result
AccessTokenOf ==
    IF script = "gmail" THEN result.token.v ELSE result["access_token"].v

CarriesRefreshToken ==
    IF script = "gmail" THEN result.refresh_token.t = "str"
    ELSE HasKey(result, "refresh_token")

RefreshTokenOf ==
    IF script = "gmail" THEN result.refresh_token.v ELSE result["refresh_token"].v

NumPrompts == IF script = "gmail" THEN 2 ELSE 3

AcquireCalls ==
    {i \in 1..Len(sdk) : sdk[i].fn \in {"run_local_server", "acquire_token_interactive"}}

CancelledLine == <<"Cancelled by user">>

----------------------------------------------------------------------------
(* Properties *)

\* C1: outlook, a result without "access_token": the report shows exactly
\* result.get("error") and result.get("error_description"), the three
\* checklist lines, and no POP3_* line, whatever other keys the result has.
C1_SoftFailureReport ==
    SoftFailed =>
        /\ \E i \in 1..Len(out) :
            /\ Labelled(out, "Error: ") = {i}
            /\ out[i] = <<"Error: ">> \o
                 (IF "error" \in DOMAIN result THEN result["error"].v ELSE <<"None">>)
            /\ Labelled(out, "Description: ") = {i + 1}
            /\ out[i + 1] = <<"Description: ">> \o
                 (IF "error_description" \in DOMAIN result
                  THEN result["error_description"].v ELSE <<"None">>)
        /\ Has(out, <<"1. Client ID and Client Secret are correct">>)
        /\ Has(out, <<"2. API permissions are granted in Azure Portal">>)
        /\ Has(out, <<"3. 'offline_access' scope is included">>)
        /\ NoConfigLine(out)

C1_Witness ==
    /\ SoftFailed
    /\ "refresh_token" \in DOMAIN result
    /\ "error" \in DOMAIN result
    /\ "error_description" \in DOMAIN result

\* C2: both scripts, KeyboardInterrupt raised while input() blocks: no SDK call
\* has been or is made, no POP3_* line is printed, and the next step ends the
\* run with the cancellation message as the last line of output.
C2_CancelAtPrompt ==
    [][ /\ (pc \in {"client_id", "client_secret", "tenant_id"}
              /\ exc' = KeyboardInterrupt)
           => (sdk' = <<>> /\ NoConfigLine(out') /\ pc' = "except")
        /\ (pc = "except" /\ exc = KeyboardInterrupt /\ sdk = <<>>)
           => /\ sdk' = <<>>
              /\ NoConfigLine(out')
              /\ pc' = "exited"
              /\ Len(out') >= 2
              /\ out'[Len(out') - 1] = CancelledLine
              /\ out'[Len(out')] = <<>> ]_vars

C2_Witness ==
    /\ Exited
    /\ exc = KeyboardInterrupt
    /\ sdk = <<>>
    /\ Len(stdin) = NumPrompts - 1
    /\ Has(out, CancelledLine)

\* C3: outlook, a result with "access_token": without "refresh_token" the
\* output has POP3_OAUTH2_REFRESH_TOKEN=<NOT_RECEIVED>, the offline_access
\* warning and the provider, email, client id, client secret and tenant id
\* lines; the placeholder line and the warning are printed in no other case.
C3_MissingRefreshToken ==
    LET placeholder == <<"POP3_OAUTH2_REFRESH_TOKEN", "=", "<NOT_RECEIVED>">>
        warning == <<"WARNING: Make sure 'offline_access' scope is included!">>
    IN  /\ (Succeeded /\ script = "outlook" /\ "refresh_token" \notin DOMAIN result) =>
            /\ Has(out, placeholder)
            /\ Has(out, warning)
            /\ \A k \in ConfigKeys : Cardinality(ValuesOf(out, k)) = 1
            /\ ValuesOf(out, "POP3_PROVIDER") = {<<"outlook">>}
            /\ ValuesOf(out, "POP3_OAUTH2_CLIENT_ID") = {client_id.v}
            /\ ValuesOf(out, "POP3_OAUTH2_CLIENT_SECRET") = {client_secret.v}
            /\ ValuesOf(out, "POP3_OAUTH2_TENANT_ID") = {tenant_id.v}
        /\ (Has(out, placeholder) \/ Has(out, warning)) =>
            /\ Succeeded
            /\ script = "outlook"
            /\ "refresh_token" \notin DOMAIN result
            /\ Has(out, placeholder)
            /\ Has(out, warning)

C3_Witness ==
    /\ Succeeded
    /\ script = "outlook"
    /\ "refresh_token" \notin DOMAIN result
    /\ "expires_in" \in DOMAIN result

\* the single "Access Token: " line of the output, without its label
Previews == {SubSeq(out[i], 2, Len(out[i])) : i \in Labelled(out, "Access Token: ")}

\* C4 as stated: on success the full access token is nowhere in the output,
\* whatever its length.
C4_NeverFullToken ==
    Succeeded => \A i \in 1..Len(out) : ~Contains(out[i], AccessTokenOf)

\* C4, amended: on success the access token is printed on one line only, as
\* its first min(len, 50) characters followed by "..."; a token longer than
\* 50 characters is nowhere in the output in full, and a token of 50
\* characters or fewer is printed in full on that line.
C4_PreviewOnly ==
    Succeeded =>
        /\ Previews = {Prefix(AccessTokenOf, PreviewLen) \o <<"...">>}
        /\ \A i \in 1..Len(out) :
              Contains(out[i], <<AccessTokenOf[1]>>) => i \in Labelled(out, "Access Token: ")
        /\ Len(AccessTokenOf) > PreviewLen =>
              \A i \in 1..Len(out) : ~Contains(out[i], AccessTokenOf)
        /\ Len(AccessTokenOf) <= PreviewLen =>
              \E i \in 1..Len(out) : Contains(out[i], AccessTokenOf)

C4_Witness ==
    /\ Succeeded
    /\ Len(AccessTokenOf) > PreviewLen
    /\ Cardinality(Labelled(out, "Access Token: ")) = 1

\* C5: gmail, credentials with token AT and refresh_token RT: the output has
\* the line POP3_OAUTH2_REFRESH_TOKEN=RT, and the preview is the first
\* min(len(AT), 50) characters of AT followed by "...".
C5_GmailReport ==
    (Succeeded /\ script = "gmail") =>
        /\ result.refresh_token.t = "str" =>
              /\ Has(out, <<"POP3_OAUTH2_REFRESH_TOKEN", "=">> \o result.refresh_token.v)
              /\ ValuesOf(out, "POP3_OAUTH2_REFRESH_TOKEN") = {result.refresh_token.v}
        /\ Previews = {Prefix(result.token.v, PreviewLen) \o <<"...">>}
        /\ \A p \in Previews :
              Len(p) = (IF Len(result.token.v) < PreviewLen
                        THEN Len(result.token.v) ELSE PreviewLen) + 1

C5_Witness ==
    /\ Succeeded
    /\ script = "gmail"
    /\ result.refresh_token.t = "str"
    /\ Len(result.token.v) > PreviewLen
    /\ result.expiry.t = "datetime"

\* C6: outlook, once the tenant prompt is answered: an input that is empty
\* after trimming gives the tenant "common", any other input gives the
\* trimmed input; the authority URL given to the SDK and the printed
\* POP3_OAUTH2_TENANT_ID line carry that tenant; the client id and the
\* client secret are the trimmed inputs, empty when the input is empty.
C6_TenantDefault ==
    (script = "outlook" /\ Len(stdin) = 3) =>
        /\ tenant_id.t = "str"
        /\ IF IsTrimOf(<<>>, stdin[3])
           THEN tenant_id.v = <<"common">>
           ELSE IsTrimOf(tenant_id.v, stdin[3])
        /\ IsTrimOf(client_id.v, stdin[1])
        /\ IsTrimOf(client_secret.v, stdin[2])
        /\ sdk # <<>> =>
              /\ sdk[1].fn = "PublicClientApplication"
              /\ sdk[1].authority = <<"https://login.microsoftonline.com/">> \o tenant_id.v
              /\ sdk[1].client_id.v = client_id.v
        /\ Succeeded =>
              /\ ValuesOf(out, "POP3_OAUTH2_TENANT_ID") = {tenant_id.v}
              /\ ValuesOf(out, "POP3_OAUTH2_CLIENT_ID") = {client_id.v}
              /\ ValuesOf(out, "POP3_OAUTH2_CLIENT_SECRET") = {client_secret.v}

C6_Witness ==
    /\ Succeeded
    /\ script = "outlook"
    /\ stdin[1] = <<>>
    /\ stdin[3] = <<" ", " ">>
    /\ sdk[1].authority = <<"https://login.microsoftonline.com/", "common">>

\* C7 as stated: a run that an exception has ended printed the exception
\* text and the install hint through the top-level handler, printed no POP3_*
\* line, and exited with status 0; the unavailable SDK package included.
C7_EveryExceptionHandled ==
    (Exited /\ exc.kind = "Exception") =>
        /\ Has(out, <<"Error: ">> \o exc.text)
        /\ \/ Has(out, <<"  pip install google-auth-oauthlib google-auth">>)
           \/ Has(out, <<"  pip install msal">>)
        /\ NoConfigLine(out)
        /\ exit_code = <<0>>

\* the keys of the .env block, in the order of the contract
BlockKeys ==
    <<"POP3_PROVIDER", "POP3_EMAIL", "POP3_OAUTH2_CLIENT_ID",
      "POP3_OAUTH2_CLIENT_SECRET", "POP3_OAUTH2_REFRESH_TOKEN">>
    \o (IF script = "outlook" THEN <<"POP3_OAUTH2_TENANT_ID">> ELSE <<>>)

\* C8: a successful run ends its output with the block of POP3_* lines, in
\* the order provider, email, client id, client secret, refresh token and
\* (outlook) tenant id, each key once; the provider is the script's, and the
\* client id and secret are the operator's inputs trimmed.
C8_EnvBlock ==
    Succeeded =>
        LET n == Len(BlockKeys)
            last == Len(out)
        IN  /\ last > n + 2
            /\ out[last] = <<>>
            /\ out[last - 1] = [i \in 1..RuleLen |-> "="]
            /\ \A i \in 1..n :
                  /\ IsConfigLine(out[last - 2 - n + i])
                  /\ out[last - 2 - n + i][1] = BlockKeys[i]
            /\ Len(ConfigLines(out)) = n
            /\ ValuesOf(out, "POP3_PROVIDER") = {<<script>>}
            /\ ValuesOf(out, "POP3_EMAIL") = {<<IF script = "gmail" THEN "your.email@gmail.com"
                    ELSE "your.email@outlook.com">>}
            /\ \A v \in ValuesOf(out, "POP3_OAUTH2_CLIENT_ID") : IsTrimOf(v, stdin[1])
            /\ \A v \in ValuesOf(out, "POP3_OAUTH2_CLIENT_SECRET") : IsTrimOf(v, stdin[2])

C8_Witness ==
    /\ Succeeded
    /\ stdin[1] = <<" ", "x">>
    /\ stdin[2] = <<"x", " ">>
    /\ Len(ConfigLines(out)) >= 5

Rank(at) ==
    CASE at = "import" -> 0
      [] at = "banner" -> 1
      [] at = "client_id" -> 2
      [] at = "client_secret" -> 3
      [] at = "tenant_id" -> 4
      [] at = "create" -> 5
      [] at = "acquire" -> 6
      [] at = "report" -> 7
      [] at = "except" -> 8
      [] at = "exited" -> 9

\* C9: a run is one pass: every step moves forward in the order prompts, SDK
\* calls, report, end; the acquisition call is made at most once and only
\* after every prompt is answered; POP3_* lines are printed only once that
\* call has returned; after the end of the run nothing more happens.
C9_SinglePass ==
    /\ [](/\ Cardinality(AcquireCalls) <= 1
          /\ Len(sdk) <= 2
          /\ sdk # <<>> => Len(stdin) = NumPrompts
          /\ AcquireCalls # {} => Len(sdk) = 2 /\ AcquireCalls = {2}
          /\ ~NoConfigLine(out) => (HasResult /\ AcquireCalls # {} /\ Exited)
          /\ HasResult => AcquireCalls # {})
    /\ [][/\ Rank(pc') > Rank(pc)
          /\ pc # "exited"
          /\ stdin' # stdin => (sdk = <<>> /\ sdk' = <<>> /\ Len(stdin') = Len(stdin) + 1)
          /\ sdk' # sdk => (pc \in {"create", "acquire"} /\ Len(sdk') = Len(sdk) + 1)
          /\ pc = "report" => pc' = "exited"
          /\ pc = "except" => (pc' = "exited" /\ sdk' = sdk /\ stdin' = stdin)]_vars

C9_Witness ==
    /\ Succeeded
    /\ script = "outlook"
    /\ Len(sdk) = 2
    /\ Len(stdin) = 3

\* C10 as stated: whenever POP3_* lines are printed, the value of the
\* POP3_OAUTH2_REFRESH_TOKEN line is the refresh token of the SDK result that
\* gave the access token, or <NOT_RECEIVED> when that result has none.
C10_RefreshTokenAttribution ==
    ~NoConfigLine(out) =>
        /\ HasResult
        /\ ValuesOf(out, "POP3_OAUTH2_REFRESH_TOKEN") =
              {IF CarriesRefreshToken THEN RefreshTokenOf ELSE <<"<NOT_RECEIVED>">>}

====
